---- MODULE Spec2Model ----
(***************************************************************************)
(* Model of the DataSequence class of Keras-Sequence.ipynb and of the      *)
(* training loop that drives it (model.fit_generator(seq, ...)).           *)
(*                                                                         *)
(* Python lists are TLA+ sequences: the Python element s[i] (0-based) is   *)
(* the TLA+ element s[i+1].  A Python object is a record of its            *)
(* attributes; an attribute that was never assigned is absent from the     *)
(* record's DOMAIN.  A call that may raise returns [ok |-> TRUE, val |-> v]*)
(* or [ok |-> FALSE, exc |-> name].                                        *)
(***************************************************************************)
EXTENDS Integers, Sequences, FiniteSets, TLC

\* Bounds of the model.
MaxRows == 3
MaxBsz == 3

\* The label column is binary; mode is 'train' or anything else.
Labels == {0, 1}
Modes == {"train", "test"}
Workers == {"w1", "w2"}

VARIABLES
    seq,         \* the DataSequence object handed to fit_generator
    unreadable,  \* paths on disk that load_img cannot load (missing, malformed)
    fetched,     \* batch indices delivered to the network in the current epoch
    delivered,   \* idx -> (batch_x, batch_y) delivered in the current epoch
    seen,        \* idx -> the batch first delivered for idx in this run
    raised,      \* "none", or the exception that ended the training run
    wpc,         \* concurrent workers: position of each worker in __getitem__
    widx,        \* concurrent workers: the idx each worker was called with
    wx,          \* concurrent workers: local batch_x
    wy,          \* concurrent workers: local batch_y
    wseq,        \* concurrent workers: what a sequential call returned at call time
    epc          \* position of the thread running on_epoch_end

vars == <<seq, unreadable, fetched, delivered, seen, raised,
          wpc, widx, wx, wy, wseq, epc>>

loopvars == <<fetched, delivered, seen, raised>>
workervars == <<wpc, widx, wx, wy, wseq, epc>>

Min(a, b) == IF a < b THEN a ELSE b

Ok(v) == [ok |-> TRUE, val |-> v]
Raise(e) == [ok |-> FALSE, exc |-> e]

\* Python s[lo:hi] for 0 <= lo <= hi: the elements at positions lo .. min(hi, len(s)) - 1.
Slice(s, lo, hi) == SubSeq(s, lo + 1, Min(hi, Len(s)))

\* range(n) as a list: 0, 1, .., n-1.
range(n) == [i \in 1..n |-> i - 1]

\* os.path.join(data_path, x): the path made of the directory and the file name.
os_path_join(dir, x) == <<dir, x>>

\* The name in the image_name column of row i (1-based); names are distinct files.
ImageName(i) == <<"img", i>>

\* The tables (filename, label) of n rows.
Tables(n) ==
    {[i \in 1..n |-> [image_name |-> ImageName(i), label |-> l[i]]] : l \in [1..n -> Labels]}

\* load_image(im): the pixels of the file at path im, or the error load_img raises.
load_image(im) ==
    IF im \in unreadable THEN Raise("IOError") ELSE Ok([pixels_of |-> im])

\* DataSequence.__init__(df, data_path, batch_size, mode): indexes is not assigned.
__init__(df, data_path, batch_size, mode) ==
    [df |-> df,
     bsz |-> batch_size,
     mode |-> mode,
     labels |-> [i \in 1..Len(df) |-> df[i].label],
     im_list |-> [i \in 1..Len(df) |-> os_path_join(data_path, df[i].image_name)]]

\* Mutants of __len__: floor instead of ceiling, and floor plus one.
len_floor(self) == Len(self.df) \div self.bsz
len_plus_one(self) == (Len(self.df) \div self.bsz) + 1

\* int(math.ceil(len(self.df) / float(self.bsz))); the float quotient of two
\* integers below 2^53 is never rounded onto or across an integer.
__len__(self) ==
    LET q == Len(self.df) \div self.bsz
    IN  IF q * self.bsz = Len(self.df) THEN q ELSE q + 1

\* random.sample(population, k): the possible results, every list of k
\* elements taken from distinct positions of population.
random_sample_with_replacement(population, k) ==
    {[i \in 1..k |-> population[f[i]]] : f \in [1..k -> 1..Len(population)]}

random_sample(population, k) ==
    {[i \in 1..k |-> population[f[i]]] :
        f \in {g \in [1..k -> 1..Len(population)] :
                 \A a, b \in 1..k : a # b => g[a] # g[b]}}

\* on_epoch_end, first statement: self.indexes = range(len(self.im_list)).
on_epoch_end_range(self) ==
    ("indexes" :> range(Len(self.im_list))) @@ self

\* Mutant: the shuffle is done in place on the list of image locations.
on_epoch_end_shuffle_im_list(self) ==
    IF self.mode = "train"
    THEN {[self EXCEPT !.im_list = s] : s \in random_sample(self.im_list, Len(self.im_list))}
    ELSE {self}

\* on_epoch_end, second statement: in mode 'train' self.indexes is replaced by
\* a sample of all of its elements.  The set of possible resulting objects.
on_epoch_end_sample(self) ==
    IF self.mode = "train"
    THEN {[self EXCEPT !.indexes = s] : s \in random_sample(self.indexes, Len(self.indexes))}
    ELSE {self}

\* DataSequence.on_epoch_end(): the set of objects it can leave.
on_epoch_end(self) == on_epoch_end_sample(on_epoch_end_range(self))

\* Mutants of get_batch_labels: the labels are picked through self.indexes;
\* a short last batch is filled up from the start of the list.
get_batch_labels_by_indexes(self, idx) ==
    IF "indexes" \in DOMAIN self
    THEN LET pos == Slice(self.indexes, idx * self.bsz, (idx + 1) * self.bsz)
         IN  [j \in 1..Len(pos) |-> self.labels[pos[j] + 1]]
    ELSE Slice(self.labels, idx * self.bsz, (idx + 1) * self.bsz)

get_batch_labels_wrap(self, idx) ==
    [j \in 1..self.bsz |->
        self.labels[((idx * self.bsz + j - 1) % Len(self.labels)) + 1]]

\* DataSequence.get_batch_labels(idx); slicing never raises.
get_batch_labels(self, idx) ==
    Slice(self.labels, idx * self.bsz, (idx + 1) * self.bsz)

\* Mutants of get_batch_features: an image that fails to load is skipped;
\* the images are picked through self.indexes; the slice end is inclusive.
get_batch_features_skip_bad(self, idx) ==
    LET ims == Slice(self.im_list, idx * self.bsz, (1 + idx) * self.bsz)
        good == SelectSeq(ims, LAMBDA im : load_image(im).ok)
    IN  Ok([j \in 1..Len(good) |-> load_image(good[j]).val])

get_batch_features_by_indexes(self, idx) ==
    IF "indexes" \in DOMAIN self
    THEN LET pos == Slice(self.indexes, idx * self.bsz, (1 + idx) * self.bsz)
             loaded == [j \in 1..Len(pos) |-> load_image(self.im_list[pos[j] + 1])]
         IN  IF \E j \in 1..Len(pos) : ~loaded[j].ok
             THEN Raise("IOError")
             ELSE Ok([j \in 1..Len(pos) |-> loaded[j].val])
    ELSE Raise("AttributeError")

get_batch_features_inclusive_end(self, idx) ==
    LET ims == Slice(self.im_list, idx * self.bsz, (1 + idx) * self.bsz + 1)
        loaded == [j \in 1..Len(ims) |-> load_image(ims[j])]
    IN  IF \E j \in 1..Len(ims) : ~loaded[j].ok
        THEN Raise("IOError")
        ELSE Ok([j \in 1..Len(ims) |-> loaded[j].val])

\* DataSequence.get_batch_features(idx): the list comprehension loads every
\* image of the slice in order; the first load that raises ends it.
get_batch_features(self, idx) ==
    LET ims == Slice(self.im_list, idx * self.bsz, (1 + idx) * self.bsz)
        loaded == [j \in 1..Len(ims) |-> load_image(ims[j])]
    IN  IF \E j \in 1..Len(ims) : ~loaded[j].ok
        THEN Raise(loaded[CHOOSE j \in 1..Len(ims) :
                             /\ ~loaded[j].ok
                             /\ \A k \in 1..(j - 1) : loaded[k].ok].exc)
        ELSE Ok([j \in 1..Len(ims) |-> loaded[j].val])

\* DataSequence.__getitem__(idx): features first, then labels; an exception
\* of get_batch_features propagates.
__getitem__(self, idx) ==
    LET batch_x == get_batch_features(self, idx)
    IN  IF ~batch_x.ok
        THEN batch_x
        ELSE Ok(<<batch_x.val, get_batch_labels(self, idx)>>)

----------------------------------------------------------------------------
\* The objects and disks the notebook can start from.
InitObjects ==
    {__init__(df, "./im", b, m) :
        df \in UNION {Tables(n) : n \in 0..MaxRows}, b \in 1..MaxBsz, m \in Modes}

InitCommon ==
    /\ seq \in InitObjects
    /\ fetched = {}
    /\ delivered = << >>
    /\ seen = << >>
    /\ raised = "none"
    /\ wpc = [w \in Workers |-> "idle"]
    /\ widx = [w \in Workers |-> 0]
    /\ wx = [w \in Workers |-> << >>]
    /\ wy = [w \in Workers |-> << >>]
    /\ wseq = [w \in Workers |-> << >>]
    /\ epc = "idle"

\* At most one file of the table is unreadable.
Init ==
    /\ InitCommon
    /\ unreadable \in {s \in SUBSET {seq.im_list[i] : i \in 1..Len(seq.im_list)} :
                          Cardinality(s) <= 1}

\* The training loop asks for a batch of the epoch it has not had yet
\* (fit_generator visits every idx of 0..len(seq)-1 once per epoch, in an
\* order of its choosing).  An exception is not caught: it ends the run.
Fetch(idx) ==
    /\ raised = "none"
    /\ idx \in (0..(__len__(seq) - 1)) \ fetched
    /\ LET r == __getitem__(seq, idx)
       IN  IF r.ok
           THEN /\ fetched' = fetched \cup {idx}
                /\ delivered' = (idx :> r.val) @@ delivered
                /\ seen' = IF idx \in DOMAIN seen THEN seen ELSE (idx :> r.val) @@ seen
                /\ raised' = "none"
           ELSE /\ raised' = r.exc
                /\ UNCHANGED <<fetched, delivered, seen>>
    /\ UNCHANGED <<seq, unreadable, workervars>>

\* All batches of the epoch were delivered: the loop calls on_epoch_end and
\* starts the next epoch.
EpochEnd ==
    /\ raised = "none"
    /\ fetched = 0..(__len__(seq) - 1)
    /\ seq' \in on_epoch_end(seq)
    /\ fetched' = {}
    /\ delivered' = << >>
    /\ UNCHANGED <<unreadable, seen, raised, workervars>>

Next ==
    \/ \E idx \in 0..MaxRows : Fetch(idx)
    \/ EpochEnd

Spec == Init /\ [][Next]_vars

----------------------------------------------------------------------------
\* The same object used by several framework workers at once.  A worker runs
\* __getitem__ statement by statement; on_epoch_end runs statement by
\* statement in the thread of the training loop.
InitConc == Init

\* A worker is handed a batch index no other worker is working on.
WCall(w, idx) ==
    /\ wpc[w] = "idle"
    /\ idx \in 0..(__len__(seq) - 1)
    /\ \A v \in Workers \ {w} : wpc[v] = "idle" \/ widx[v] # idx
    /\ wpc' = [wpc EXCEPT ![w] = "features"]
    /\ widx' = [widx EXCEPT ![w] = idx]
    /\ wseq' = [wseq EXCEPT ![w] = __getitem__(seq, idx)]
    /\ UNCHANGED <<seq, unreadable, loopvars, wx, wy, epc>>

\* batch_x = self.get_batch_features(idx)
WFeatures(w) ==
    /\ wpc[w] = "features"
    /\ LET r == get_batch_features(seq, widx[w])
       IN  IF r.ok
           THEN /\ wx' = [wx EXCEPT ![w] = r.val]
                /\ wpc' = [wpc EXCEPT ![w] = "labels"]
           ELSE /\ wx' = wx
                /\ wpc' = [wpc EXCEPT ![w] = "raised"]
    /\ UNCHANGED <<seq, unreadable, loopvars, widx, wy, wseq, epc>>

\* batch_y = self.get_batch_labels(idx)
WLabels(w) ==
    /\ wpc[w] = "labels"
    /\ wy' = [wy EXCEPT ![w] = get_batch_labels(seq, widx[w])]
    /\ wpc' = [wpc EXCEPT ![w] = "ret"]
    /\ UNCHANGED <<seq, unreadable, loopvars, widx, wx, wseq, epc>>

\* return batch_x, batch_y
WReturn(w) ==
    /\ wpc[w] = "ret"
    /\ wpc' = [wpc EXCEPT ![w] = "idle"]
    /\ wx' = [wx EXCEPT ![w] = << >>]
    /\ wy' = [wy EXCEPT ![w] = << >>]
    /\ wseq' = [wseq EXCEPT ![w] = << >>]
    /\ UNCHANGED <<seq, unreadable, loopvars, widx, epc>>

\* self.indexes = range(len(self.im_list))
EpochEndAssign ==
    /\ epc = "idle"
    /\ seq' = on_epoch_end_range(seq)
    /\ epc' = "assigned"
    /\ UNCHANGED <<unreadable, loopvars, wpc, widx, wx, wy, wseq>>

\* if self.mode == 'train': self.indexes = random.sample(...)
EpochEndSample ==
    /\ epc = "assigned"
    /\ seq' \in on_epoch_end_sample(seq)
    /\ epc' = "idle"
    /\ UNCHANGED <<unreadable, loopvars, wpc, widx, wx, wy, wseq>>

NextConc ==
    \/ \E w \in Workers, idx \in 0..MaxRows : WCall(w, idx)
    \/ \E w \in Workers : WFeatures(w)
    \/ \E w \in Workers : WLabels(w)
    \/ \E w \in Workers : WReturn(w)
    \/ EpochEndAssign
    \/ EpochEndSample

SpecConc == InitConc /\ [][NextConc]_vars

----------------------------------------------------------------------------
\* Vocabulary of the properties.
NumRows == Len(seq.df)
BatchIdx == 0..(__len__(seq) - 1)
EpochComplete == raised = "none" /\ fetched = BatchIdx
Shuffled == "indexes" \in DOMAIN seq /\ seq.indexes # range(NumRows)

\* What loading the image of row i (1-based) of the table gives.
RowImage(i) == [pixels_of |-> os_path_join("./im", seq.df[i].image_name)]
RowLabel(i) == seq.df[i].label

\* The rows (1-based) of the table at the 0-based positions lo .. hi-1.
RowsAt(lo, hi) == {i \in 1..NumRows : lo < i /\ i <= hi}

\* The places (idx, j) of the delivered batches of this epoch.
PlacesX == {p \in fetched \X (1..(MaxRows + MaxBsz)) : p[2] <= Len(delivered[p[1]][1])}
PlacesY == {p \in fetched \X (1..(MaxRows + MaxBsz)) : p[2] <= Len(delivered[p[1]][2])}

\* C1: when every idx of 0..len-1 was fetched once in an epoch, the batches
\* together hold every row of the table exactly once, in every epoch.
C1_EachRowOncePerEpoch ==
    EpochComplete =>
        /\ \A i \in 1..NumRows :
              Cardinality({p \in PlacesX : delivered[p[1]][1][p[2]] = RowImage(i)}) = 1
        /\ Cardinality(PlacesX) = NumRows
        /\ Cardinality(PlacesY) = NumRows
        /\ \A l \in Labels :
              Cardinality({p \in PlacesY : delivered[p[1]][2][p[2]] = l})
                  = Cardinality({i \in 1..NumRows : RowLabel(i) = l})

C1_Witness ==
    /\ EpochComplete
    /\ Shuffled
    /\ NumRows = 3
    /\ seq.bsz = 2

\* C2: in mode 'train', after on_epoch_end, the batch of idx holds the rows at
\* the positions indexes[idx*bsz : (idx+1)*bsz].
C2_ShuffleGovernsSampling ==
    (seq.mode = "train" /\ "indexes" \in DOMAIN seq) =>
        \A idx \in fetched :
            LET pos == Slice(seq.indexes, idx * seq.bsz, (idx + 1) * seq.bsz)
            IN  /\ delivered[idx][1] = [j \in 1..Len(pos) |-> RowImage(pos[j] + 1)]
                /\ delivered[idx][2] = [j \in 1..Len(pos) |-> RowLabel(pos[j] + 1)]

\* C3: for n >= 1 and every idx below __len__(), the slice start idx*bsz is
\* below n, the positions read are in 0..n-1 and the batch is not empty.
C3_SliceWithinBounds ==
    NumRows >= 1 =>
        /\ \A idx \in BatchIdx :
              /\ idx * seq.bsz < NumRows
              /\ Len(get_batch_labels(seq, idx)) >= 1
              /\ get_batch_features(seq, idx).ok =>
                    Len(get_batch_features(seq, idx).val) >= 1
        /\ \A idx \in fetched :
              /\ Len(delivered[idx][1]) >= 1
              /\ Len(delivered[idx][2]) >= 1

C3_Witness ==
    /\ NumRows = 3
    /\ seq.bsz = 3
    /\ fetched = {0}
    /\ Len(delivered[0][1]) = 3

\* C4: __len__() is the smallest k with k*bsz >= n.
C4_LenIsCeiling ==
    /\ __len__(seq) * seq.bsz >= NumRows
    /\ \A k \in 0..(__len__(seq) - 1) : k * seq.bsz < NumRows
    /\ NumRows = 0 => __len__(seq) = 0
    /\ NumRows % seq.bsz = 0 => __len__(seq) * seq.bsz = NumRows
    /\ NumRows % seq.bsz # 0 => __len__(seq) = (NumRows \div seq.bsz) + 1

C4_Witness ==
    /\ NumRows = 3
    /\ seq.bsz = 2
    /\ EpochComplete
    /\ Cardinality(fetched) = 2

\* C6: every batch but the last has bsz rows; the last has
\* n - (__len__()-1)*bsz rows, between 1 and bsz, short exactly when bsz does
\* not divide n, and holds rows of the end of the list only.
C6_BatchSizes ==
    \A idx \in fetched :
        LET last == __len__(seq) - 1
            size == IF idx < last THEN seq.bsz ELSE NumRows - last * seq.bsz
        IN  /\ Len(delivered[idx][1]) = size
            /\ Len(delivered[idx][2]) = size
            /\ size >= 1 /\ size <= seq.bsz
            /\ (idx = last /\ size < seq.bsz) <=> (idx = last /\ NumRows % seq.bsz # 0)
            /\ \A j \in 1..Len(delivered[idx][1]) :
                  delivered[idx][1][j] = RowImage(idx * seq.bsz + j)
            /\ \A j \in 1..Len(delivered[idx][2]) :
                  idx * seq.bsz + j <= NumRows

C6_Witness ==
    /\ NumRows = 3
    /\ seq.bsz = 2
    /\ fetched = {0, 1}
    /\ Len(delivered[0][2]) = 2
    /\ Len(delivered[1][2]) = 1

\* C7: batch_x and batch_y of a delivered batch have the same length, and the
\* image and the label at the same position are those of one row of the table.
C7_FeaturesLabelsPaired ==
    \A idx \in fetched :
        /\ Len(delivered[idx][1]) = Len(delivered[idx][2])
        /\ \A j \in 1..Len(delivered[idx][1]) :
              \E i \in 1..NumRows :
                  /\ delivered[idx][1][j] = RowImage(i)
                  /\ j <= Len(delivered[idx][2])
                  /\ delivered[idx][2][j] = RowLabel(i)

C7_Witness ==
    /\ Shuffled
    /\ seq.mode = "train"
    /\ fetched = {1}
    /\ seq.bsz = 1
    /\ seq.labels = <<0, 1, 0>>

\* C8: once on_epoch_end has run, indexes holds each of 0..n-1 exactly once,
\* and is 0,1,..,n-1 unless mode is 'train'.
C8_IndexesIsPermutation ==
    "indexes" \in DOMAIN seq =>
        /\ Len(seq.indexes) = NumRows
        /\ \A v \in 0..(NumRows - 1) :
              Cardinality({k \in 1..Len(seq.indexes) : seq.indexes[k] = v}) = 1
        /\ seq.mode # "train" => seq.indexes = range(NumRows)

C8_Witness ==
    /\ seq.mode = "train"
    /\ Shuffled
    /\ NumRows = 3

\* Whether some image of batch idx cannot be loaded.
BatchUnreadable(idx) ==
    \E i \in RowsAt(idx * seq.bsz, (idx + 1) * seq.bsz) :
        os_path_join("./im", seq.df[i].image_name) \in unreadable

\* C5: a batch with an image that cannot be loaded is not returned, not even
\* in part; the exception is not caught or retried: the run halts and no
\* later batch is delivered.
C5_NoErrorHandling ==
    /\ [](\A idx \in BatchIdx : BatchUnreadable(idx) => ~__getitem__(seq, idx).ok)
    /\ [](\A idx \in fetched :
            /\ ~BatchUnreadable(idx)
            /\ Len(delivered[idx][1])
                  = Cardinality(RowsAt(idx * seq.bsz, (idx + 1) * seq.bsz)))
    /\ [](raised # "none" => \E idx \in BatchIdx \ fetched : BatchUnreadable(idx))
    /\ [][raised # "none" =>
            /\ raised' = raised
            /\ fetched' = fetched
            /\ delivered' = delivered
            /\ seq' = seq]_vars

C5_Witness ==
    /\ raised = "IOError"
    /\ fetched # {}
    /\ \E idx \in BatchIdx \ fetched : ~BatchUnreadable(idx)

C10_ConcurrentSameAsSequential ==
    \A w \in Workers :
        /\ wpc[w] = "ret" =>
              /\ Ok(<<wx[w], wy[w]>>) = wseq[w]
              /\ wseq[w] = __getitem__(seq, widx[w])
        /\ wpc[w] = "labels" =>
              /\ wseq[w].ok
              /\ wx[w] = wseq[w].val[1]
        /\ wpc[w] = "raised" =>
              /\ ~wseq[w].ok
              /\ ~__getitem__(seq, widx[w]).ok

C10_Witness ==
    /\ wpc["w1"] = "ret"
    /\ wpc["w2"] = "labels"
    /\ widx["w1"] # widx["w2"]
    /\ epc = "assigned"
    /\ seq.mode = "train"
    /\ NumRows = 3

====
